---------------------------- MODULE Spec2Model ----------------------------
(***************************************************************************)
(* Model of the sperm-analysis application: the CASA metrics calculator    *)
(* SpermAnalysisService._calculate_casa_metrics (app/analysis_service.py), *)
(* the numpy random generator it draws from, and the executor threads the  *)
(* dashboard runs it on.                                                   *)
(*                                                                         *)
(* Numbers.  The code mixes two arithmetics: Python floats (coordinates,   *)
(* timestamps, segment distances, instantaneous velocities) and Decimal    *)
(* (everything that ends up in the record).  Both are modelled as scaled   *)
(* integers that round to nearest, ties to even, after every operation     *)
(* that rounds in the code: a float is an integer count of 10^-FloatDigits *)
(* and a Decimal an integer count of 10^-DecimalDigits.  Decimal(str(x))   *)
(* is the change of scale between the two.  The float range is cut at      *)
(* MaxFloatRoot^2: squaring a larger difference raises OverflowError, as   *)
(* x ** 2 does in Python.                                                  *)
(***************************************************************************)
EXTENDS Integers, Sequences, FiniteSets, TLC

VARIABLES
    trajectory,             \* track.trajectory of the track handed to the calculator
    pixel_to_micron_ratio,  \* self.pixel_to_micron_ratio (a float)
    fps,                    \* the frame rate handed to the calculator (a Decimal)
    rng,                    \* numpy's global generator: values drawn since seed(42)
    result,                 \* what the latest sequential call returned
    pc,                     \* executor threads: where each is in the calculator
    local,                  \* executor threads: the locals of each call
    ret,                    \* executor threads: what each call returned
    video,                  \* the arguments of the mock video tracker
    tracked,                \* what the mock video tracker returned
    files,                  \* the uploaded_file table: id -> committed row
    analysis_results,       \* the analysis_result table: committed rows
    disk,                   \* the paths under the upload directory that hold a file
    clock,                  \* the wall clock, in seconds (datetime.now())
    next_id,                \* the next primary key of uploaded_file
    calls,                  \* analyze_file calls: id -> where the call is
    upload,                 \* the latest upload event and what became of it
    stats,                  \* what the latest get_file_statistics returned
    deleted,                \* the latest delete_uploaded_file call and what it returned
    sperm_track,            \* the sperm_track table: the rows of the session
    casa_metrics,           \* the casa_metrics table: the rows of the session
    tasks                   \* the dashboard: the analyses it scheduled, in order

calculator == <<trajectory, pixel_to_micron_ratio, fps, rng, result, pc, local, ret>>
tracker == <<video, tracked>>
store == <<files, analysis_results, disk, clock, next_id, calls, upload, stats>>
tables == <<sperm_track, casa_metrics>>
flow == <<deleted, tasks>>
vars == <<calculator, tracker, store, tables, flow>>

(***************************************************************************)
(* Bounds of the model.                                                    *)
(***************************************************************************)
FloatDigits == 2      \* decimal digits a float keeps after the point
DecimalDigits == 4    \* decimal digits a Decimal keeps after the point
MaxFloatRoot == 20    \* largest magnitude whose square is still a float
MaxLen == 5           \* longest trajectory (samples) drawn by Init
MaxThreadLen == 3     \* longest trajectory drawn for the concurrent runs
MaxDraws == 4         \* sequential calls stop drawing after this many values
NumThreads == 2       \* executor threads running the calculator at once
LongLen == 11         \* longest trajectory (samples) of the repeated-step walks
MaxFiles == 2         \* rows the uploaded_file table ever gets
MaxTracks == 2        \* tracks of the analysis whose rows are stored one by one
MaxClock == 1         \* seconds the wall clock advances

RECURSIVE Pow10(_)
Pow10(n) == IF n = 0 THEN 1 ELSE 10 * Pow10(n - 1)

FloatScale == Pow10(FloatDigits)
DecimalScale == Pow10(DecimalDigits)

Abs(a) == IF a < 0 THEN -a ELSE a

(***************************************************************************)
(* Rounding.  a / b to the nearest integer, ties to even (IEEE 754 round   *)
(* to nearest even for floats, ROUND_HALF_EVEN for Decimal), b > 0.        *)
(***************************************************************************)
RoundHalfEvenNat(a, b) ==
    LET q == a \div b
        r == a % b
    IN  IF 2 * r > b \/ (2 * r = b /\ q % 2 = 1) THEN q + 1 ELSE q

RoundHalfEven(a, b) ==
    IF a < 0 THEN -RoundHalfEvenNat(-a, b) ELSE RoundHalfEvenNat(a, b)

RECURSIVE SqrtSearch(_, _, _)
SqrtSearch(n, lo, hi) ==
    \* the largest r in lo..hi with r * r <= n
    IF lo >= hi THEN lo
    ELSE LET mid == (lo + hi + 1) \div 2
         IN  IF mid * mid <= n THEN SqrtSearch(n, mid, hi)
                               ELSE SqrtSearch(n, lo, mid - 1)

\* x ** 0.5 of a float: n is x at scale FloatScale^2, the result is at FloatScale
FloatSqrt(n) ==
    LET r == SqrtSearch(n, 0, IF n < 2 * MaxFloatRoot * FloatScale THEN n ELSE 2 * MaxFloatRoot * FloatScale)
    IN  IF n - r * r > r THEN r + 1 ELSE r

\* a * b of two floats
FloatMul(a, b) == RoundHalfEven(a * b, FloatScale)

\* a / b of two floats, b > 0
FloatDiv(a, b) == RoundHalfEven(a * FloatScale, b)

\* x ** 2 raises OverflowError when the square is out of the float range
PowOverflows(d) == Abs(d) > MaxFloatRoot * FloatScale

\* Decimal(str(x)) of a float x
DecimalOfFloat(x) == x * (DecimalScale \div FloatScale)

\* Decimal(str(n)) of an integer n
DecimalOfInt(n) == n * DecimalScale

RECURSIVE LongDivision(_, _, _, _)
LongDivision(q, r, b, k) ==
    IF k = 0
    THEN IF 2 * r > b \/ (2 * r = b /\ q % 2 = 1) THEN q + 1 ELSE q
    ELSE LongDivision(10 * q + ((10 * r) \div b), (10 * r) % b, b, k - 1)

\* a / b of two Decimals, b > 0, rounded at the last digit kept
DecimalDiv(a, b) ==
    IF a < 0 THEN -LongDivision((-a) \div b, (-a) % b, b, DecimalDigits)
    ELSE LongDivision(a \div b, a % b, b, DecimalDigits)

MinDecimal(a, b) == IF a <= b THEN a ELSE b
MaxDecimal(a, b) == IF a >= b THEN a ELSE b

(***************************************************************************)
(* The numpy generator.  np.random.seed(42) puts it in a fixed state and   *)
(* every draw moves it on by one; the value drawn is a function of the     *)
(* seed and of how many values were drawn since.                           *)
(***************************************************************************)
SeededState == 0

\* np.random.uniform(lo, hi) in state s, lo and hi Decimals
Uniform(lo, hi, s) == lo + (((hi - lo) * ((37 * s + 42) % 100)) \div 100)

(***************************************************************************)
(* _calculate_casa_metrics                                                 *)
(***************************************************************************)
None == [kind |-> "None"]
NotCalled == [kind |-> "NotCalled"]

\* if len(track.trajectory) < 3
TooShortOffByOne(track) == Len(track) < 2
TooShort(track) == Len(track) < 3

\* points = [(point["x"], point["y"], point["timestamp"]) ...]
Points(track) == [i \in 1..Len(track) |-> <<track[i].x, track[i].y, track[i].timestamp>>]

\* the pixel distance between two points raises OverflowError
DistanceRaises(p, q) == PowOverflows(q[1] - p[1]) \/ PowOverflows(q[2] - p[2])

\* ((x2 - x1) ** 2 + (y2 - y1) ** 2) ** 0.5 * self.pixel_to_micron_ratio
SegmentDistanceSigned(p, q, ratio) == FloatMul((q[1] - p[1]) + (q[2] - p[2]), ratio)
SegmentDistance(p, q, ratio) ==
    FloatMul(FloatSqrt((q[1] - p[1]) * (q[1] - p[1]) + (q[2] - p[2]) * (q[2] - p[2])), ratio)

\* total_distance if only the segments that take time were added
RECURSIVE TotalDistanceTimed(_, _, _)
TotalDistanceTimed(points, n, ratio) ==
    IF n < 2 THEN 0
    ELSE TotalDistanceTimed(points, n - 1, ratio)
         + (IF points[n][3] - points[n - 1][3] > 0
            THEN DecimalOfFloat(SegmentDistance(points[n - 1], points[n], ratio))
            ELSE 0)

\* total_distance after the loop over range(1, n + 1): the Decimal sum
RECURSIVE TotalDistance(_, _, _)
TotalDistance(points, n, ratio) ==
    IF n < 2 THEN 0
    ELSE TotalDistance(points, n - 1, ratio)
         + DecimalOfFloat(SegmentDistance(points[n - 1], points[n], ratio))

\* velocities after the loop: one float per segment with time_diff > 0
RECURSIVE Velocities(_, _, _)
Velocities(points, n, ratio) ==
    IF n < 2 THEN <<>>
    ELSE LET time_diff == points[n][3] - points[n - 1][3]
             before == Velocities(points, n - 1, ratio)
         IN  IF time_diff > 0
             THEN Append(before, FloatDiv(SegmentDistance(points[n - 1], points[n], ratio), time_diff))
             ELSE before

\* the loop raises at some segment
LoopRaises(points) == \E i \in 2..Len(points) : DistanceRaises(points[i - 1], points[i])

\* net_distance
NetDistance(points, ratio) ==
    DecimalOfFloat(SegmentDistance(points[1], points[Len(points)], ratio))

\* total_time = points[-1][2] - points[0][2]
TotalTime(points) == points[Len(points)][3] - points[1][3]

Vcl(total_distance, total_time) ==
    IF total_time > 0 THEN DecimalDiv(total_distance, DecimalOfFloat(total_time)) ELSE 0

Vsl(net_distance, total_time) ==
    IF total_time > 0 THEN DecimalDiv(net_distance, DecimalOfFloat(total_time)) ELSE 0

RECURSIVE SumDecimals(_, _)
SumDecimals(vs, k) ==
    IF k = 0 THEN 0 ELSE SumDecimals(vs, k - 1) + DecimalOfFloat(vs[k])

\* sum(velocities[: n // 2]) / max(1, n // 2) if velocities else 0
Vap(velocities) ==
    LET half == Len(velocities) \div 2
    IN  IF Len(velocities) > 0
        THEN DecimalDiv(SumDecimals(velocities, half),
                        DecimalOfInt(IF half > 1 THEN half ELSE 1))
        ELSE 0

\* (a / b * 100) if b > 0 else 0
PercentageOrHundred(a, b) == IF b > 0 THEN DecimalDiv(a, b) * 100 ELSE DecimalOfInt(100)
Percentage(a, b) == IF b > 0 THEN DecimalDiv(a, b) * 100 ELSE 0

\* min(Decimal("100"), value)
NoClamp(value) == value
Clamp100(value) == MinDecimal(DecimalOfInt(100), value)

\* path_smoothness
PathSmoothness(n) ==
    MaxDecimal(DecimalScale \div 10,
               MinDecimal(DecimalScale,
                          (8 * DecimalScale) \div 10
                          - DecimalDiv(DecimalOfInt(n), DecimalOfInt(1000))))

\* tracking_quality
TrackingQualityFromTen(n) == IF n >= 10 THEN (9 * DecimalScale) \div 10 ELSE (7 * DecimalScale) \div 10
TrackingQuality(n) == IF n > 10 THEN (9 * DecimalScale) \div 10 ELSE (7 * DecimalScale) \div 10

\* pixel_to_micron_ratio=Decimal(str(self.pixel_to_micron_ratio))
CalibrationDefault(ratio) == DecimalScale \div 2
Calibration(ratio) == DecimalOfFloat(ratio)

\* the record built at lines 320-336 from the metrics and the two values drawn
Record(track, rate, ratio, alh, bcf) ==
    LET points == Points(track)
        total_distance == TotalDistance(points, Len(points), ratio)
        velocities == Velocities(points, Len(points), ratio)
        net_distance == NetDistance(points, ratio)
        total_time == TotalTime(points)
        vcl == Vcl(total_distance, total_time)
        vsl == Vsl(net_distance, total_time)
        vap == Vap(velocities)
    IN  [kind |-> "CASAMetrics",
         sperm_track_id |-> 0,
         vcl |-> vcl,
         vsl |-> vsl,
         vap |-> vap,
         lin |-> Clamp100(Percentage(vsl, vcl)),
         str_value |-> Clamp100(Percentage(vsl, vap)),
         wob |-> Clamp100(Percentage(vap, vcl)),
         alh |-> alh,
         bcf |-> bcf,
         total_distance |-> total_distance,
         net_distance |-> net_distance,
         path_smoothness |-> PathSmoothness(Len(points)),
         tracking_quality |-> TrackingQuality(Len(points)),
         pixel_to_micron_ratio |-> Calibration(ratio),
         frame_rate |-> rate]

\* the try block raises: the except clause logs and returns None
Raises(track) ==
    LET points == Points(track)
    IN  LoopRaises(points) \/ DistanceRaises(points[1], points[Len(points)])

\* alh = Decimal(str(np.random.uniform(1.5, 4.5)))
Alh(s) == Uniform((15 * DecimalScale) \div 10, (45 * DecimalScale) \div 10, s)

\* bcf = Decimal(str(np.random.uniform(8, 25)))
Bcf(s) == Uniform(DecimalOfInt(8), DecimalOfInt(25), s)

\* the value _calculate_casa_metrics returns when the generator is in state s
CalculateCasaMetrics(track, rate, ratio, s) ==
    IF TooShort(track) THEN None
    ELSE IF Raises(track) THEN None
    ELSE Record(track, rate, ratio, Alh(s), Bcf(s + 1))

\* how many values a call draws from the generator
Draws(track) == IF TooShort(track) \/ Raises(track) THEN 0 ELSE 2

(***************************************************************************)
(* Inputs.  A trajectory is a list of samples {frame, x, y, timestamp};    *)
(* Init draws it as a walk from a start sample by steps taken from Steps.  *)
(***************************************************************************)
Steps ==
    { <<1 * FloatScale, 0, 1 * FloatScale>>,                \* one pixel east in one second
      <<1 * FloatScale, 1 * FloatScale, 1 * FloatScale>>,   \* diagonal
      <<-1 * FloatScale, 0, 3 * FloatScale>>,               \* one pixel west in three seconds
      <<0, 0, 1 * FloatScale>>,                             \* no movement
      <<1 * FloatScale, 0, 0>>,                             \* same timestamp
      <<0, 1 * FloatScale, -1 * FloatScale>>,               \* timestamp going back
      <<(MaxFloatRoot + 1) * FloatScale, 0, 1 * FloatScale>> }  \* out of the float range when squared

StartSample == [frame |-> 0, x |-> 2 * FloatScale, y |-> 1 * FloatScale, timestamp |-> 1 * FloatScale]

RECURSIVE Walk(_, _)
Walk(steps, n) ==
    IF n = 0 THEN <<StartSample>>
    ELSE LET before == Walk(steps, n - 1)
             last == before[n]
         IN  Append(before, [frame |-> n,
                             x |-> last.x + steps[n][1],
                             y |-> last.y + steps[n][2],
                             timestamp |-> last.timestamp + steps[n][3]])

TrajectoriesOfLen(n) ==
    IF n = 0 THEN {<<>>} ELSE {Walk(steps, n - 1) : steps \in [1..(n - 1) -> Steps]}

\* every walk of at most maxLen samples over Steps
Trajectories(maxLen) == UNION {TrajectoriesOfLen(n) : n \in 0..maxLen}

\* steps of the smallest displacement a float can hold
FineSteps ==
    { <<1, 0, 1 * FloatScale>>,
      <<-1, 0, 1 * FloatScale>>,
      <<0, 0, 1 * FloatScale>> }

FineTrajectories == {Walk(steps, 2) : steps \in [1..2 -> FineSteps]}

\* longer tracks, as the tracker produces them: one step repeated
LongTrajectories ==
    {Walk([i \in 1..(n - 1) |-> s], n - 1) : s \in Steps, n \in (MaxLen + 1)..LongLen}

Ratios == {FloatScale \div 2, FloatScale}

FrameRates == {DecimalOfInt(30), DecimalOfInt(25)}

Threads == 1..NumThreads

(***************************************************************************)
(* _mock_detect_and_track_sperm_in_video.  The values numpy draws after    *)
(* seed(42) are a fixed sequence; the model runs the tracker on a few      *)
(* sequences (streams), the draw in state s of stream k being a function   *)
(* of both.                                                                *)
(***************************************************************************)
Streams == {42, 60, 44}

\* float(fps) of a Decimal frame rate
FloatOfDecimal(d) == RoundHalfEven(d, DecimalScale \div FloatScale)

\* np.random.randint(lo, hi) raises ValueError("low >= high")
RandintRaises(lo, hi) == lo >= hi

\* np.random.randint(lo, hi) in state s of stream k: an integer in lo..(hi - 1)
Randint(lo, hi, s, k) == lo + (((37 * s + k) % 100) % (hi - lo))

\* np.random.uniform(lo, hi) in state s of stream k, lo and hi floats
StreamUniform(lo, hi, s, k) == lo + (((hi - lo) * ((37 * s + k) % 100)) \div 100)

\* np.random.normal(0, 5): a float around 0
Normal(s, k) == StreamUniform(-15 * FloatScale, 15 * FloatScale, s, k)

\* max(10, min(limit - 10, value)) of floats
KeepWithin(limit, value) ==
    LET upper == IF limit - 10 * FloatScale <= value THEN limit - 10 * FloatScale ELSE value
    IN  IF upper >= 10 * FloatScale THEN upper ELSE 10 * FloatScale

\* min(150, total_frames)
LengthLimit(total_frames) == IF total_frames < 150 THEN total_frames ELSE 150

\* num_tracks = np.random.randint(5, 20), the first draw after the seed
NumTracks(v) == Randint(5, 20, SeededState, v.stream)

\* the first track's randint(30, min(150, total_frames)) raises
TrackerRaises(v) == RandintRaises(30, LengthLimit(v.total_frames))

\* the values drawn for one track: 4 for its shape and 7 for each frame
DrawsOfTrack(length) == 4 + 7 * length

\* the generator's state when the loop starts on track i
RECURSIVE StateAtTrack(_, _)
StateAtTrack(v, i) ==
    IF i = 0 THEN SeededState + 1
    ELSE LET before == StateAtTrack(v, i - 1)
         IN  before + DrawsOfTrack(Randint(30, LengthLimit(v.total_frames), before, v.stream))

\* lines 203-230 and 245-255: track i with its trajectory
Track(v, i, s) ==
    LET k == v.stream
        track_length == Randint(30, LengthLimit(v.total_frames), s, k)
        rest == v.total_frames - track_length
        start_frame == Randint(0, IF rest > 1 THEN rest ELSE 1, s + 1, k)
        end_frame == start_frame + track_length
        start_x == StreamUniform(50 * FloatScale, (v.width - 50) * FloatScale, s + 2, k)
        start_y == StreamUniform(50 * FloatScale, (v.height - 50) * FloatScale, s + 3, k)
        Sample(j) ==
            LET base == s + 4 + 7 * j
                progress == FloatDiv(j * FloatScale, track_length * FloatScale)
                noise_x == Normal(base, k)
                noise_y == Normal(base + 1, k)
                x == start_x + FloatMul(progress, StreamUniform(-100 * FloatScale, 100 * FloatScale, base + 2, k)) + noise_x
                y == start_y + FloatMul(progress, StreamUniform(-50 * FloatScale, 50 * FloatScale, base + 3, k)) + noise_y
            IN  [frame |-> start_frame + j,
                 x |-> KeepWithin(v.width * FloatScale, x),
                 y |-> KeepWithin(v.height * FloatScale, y),
                 timestamp |-> FloatDiv((start_frame + j) * FloatScale, FloatOfDecimal(v.fps))]
    IN  [track_id |-> i,
         start_frame |-> start_frame,
         end_frame |-> end_frame - 1,
         total_frames |-> track_length,
         trajectory |-> [j \in 1..track_length |-> Sample(j - 1)]]

\* lines 233-243: the detections of a track, one for each sample
DetectionsOfTrack(track) ==
    [j \in 1..Len(track.trajectory) |->
        [frame_number |-> track.trajectory[j].frame,
         bbox_x |-> DecimalOfFloat(track.trajectory[j].x - 10 * FloatScale),
         bbox_y |-> DecimalOfFloat(track.trajectory[j].y - 8 * FloatScale)]]

RECURSIVE Detections(_, _)
Detections(tracks, n) ==
    IF n = 0 THEN <<>> ELSE Detections(tracks, n - 1) \o DetectionsOfTrack(tracks[n])

\* the loop of line 201 from track i on, the generator being in state s
RECURSIVE Tracks(_, _, _)
Tracks(v, i, s) ==
    IF i >= NumTracks(v) THEN <<>>
    ELSE LET track == Track(v, i, s)
         IN  <<track>> \o Tracks(v, i + 1, s + DrawsOfTrack(track.total_frames))

\* what _mock_detect_and_track_sperm_in_video returns or raises
MockDetectAndTrack(v) ==
    IF TrackerRaises(v) THEN [kind |-> "ValueError"]
    ELSE LET tracks == Tracks(v, 0, SeededState + 1)
         IN  [kind |-> "Tracked",
              detections |-> Detections(tracks, Len(tracks)),
              tracks |-> tracks]

\* the generator's state when the tracker returns or raises
StateAfterTracker(v) ==
    IF TrackerRaises(v) THEN SeededState + 1 ELSE StateAtTrack(v, NumTracks(v))

\* no tracker call yet
NoVideo == [kind |-> "NoVideo"]

InitTracker ==
    /\ video = NoVideo
    /\ tracked = NotCalled

(***************************************************************************)
(* file_service.py: the upload directory and the uploaded_file table       *)
(***************************************************************************)
SUPPORTED_IMAGE_FORMATS == {".jpg", ".jpeg", ".png"}
SUPPORTED_VIDEO_FORMATS == {".mp4", ".avi"}
MAX_IMAGE_SIZE == 50 * 1024 * 1024
MAX_VIDEO_SIZE == 500 * 1024 * 1024

\* str.lower() of a suffix
Lower(ext) ==
    CASE ext = ".JPG" -> ".jpg"
      [] ext = ".AVI" -> ".avi"
      [] OTHER -> ext

\* Path(name).suffix.lower(), an upload's name being its stem and its suffix
Extension(name) == Lower(name.suffix)

\* len(upload_event.content.read()) of a stream of `size` bytes read from `position`
ReadLength(size, position) == size - position

\* _validate_file: None, or the error message
ValidateFileBelowLimit(event) ==
    LET file_ext == Extension(event.name)
        file_size == ReadLength(event.size, 0)
        max_size == IF file_ext \in SUPPORTED_IMAGE_FORMATS THEN MAX_IMAGE_SIZE ELSE MAX_VIDEO_SIZE
    IN  IF file_ext \notin (SUPPORTED_IMAGE_FORMATS \cup SUPPORTED_VIDEO_FORMATS)
        THEN [kind |-> "Error", message |-> "Unsupported file format"]
        ELSE IF file_size >= max_size THEN [kind |-> "Error", message |-> "File too large"]
        ELSE IF file_size = 0 THEN [kind |-> "Error", message |-> "Empty file"]
        ELSE None
ValidateFile(event) ==
    LET file_ext == Extension(event.name)
        file_size == ReadLength(event.size, 0)
        max_size == IF file_ext \in SUPPORTED_IMAGE_FORMATS THEN MAX_IMAGE_SIZE ELSE MAX_VIDEO_SIZE
    IN  IF file_ext \notin (SUPPORTED_IMAGE_FORMATS \cup SUPPORTED_VIDEO_FORMATS)
        THEN [kind |-> "Error", message |-> "Unsupported file format"]
        ELSE IF file_size > max_size THEN [kind |-> "Error", message |-> "File too large"]
        ELSE IF file_size = 0 THEN [kind |-> "Error", message |-> "Empty file"]
        ELSE None

\* _determine_file_type_and_format
DetermineFileTypeAndFormat(name) ==
    LET ext == Extension(name)
    IN  IF ext \in {".jpg", ".jpeg"} THEN <<"IMAGE", "JPG">>
        ELSE IF ext = ".png" THEN <<"IMAGE", "PNG">>
        ELSE IF ext = ".mp4" THEN <<"VIDEO", "MP4">>
        ELSE IF ext = ".avi" THEN <<"VIDEO", "AVI">>
        ELSE <<"None", "None">>

\* an optional column or value: None, or the value
Nothing == <<>>
Some(value) == <<value>>

\* `value or default`: the default when the value is None or falsy
OrElse(value, default) == IF value = Nothing \/ value = Some(0) THEN default ELSE value[1]

\* _extract_file_metadata: width, height, duration, fps; a file Image.open
\* cannot read leaves them None
ExtractFileMetadata(content, file_type) ==
    IF file_type = "IMAGE"
    THEN IF content.image
         THEN [width |-> Some(800), height |-> Some(600), duration |-> Nothing, fps |-> Nothing]
         ELSE [width |-> Nothing, height |-> Nothing, duration |-> Nothing, fps |-> Nothing]
    ELSE [width |-> Some(640), height |-> Some(480),
          duration |-> Some(10 * FloatScale), fps |-> Some(30 * FloatScale)]

\* Decimal(str(value)) if value is not None else None
DecimalOrNone(value) == IF value = Nothing THEN Nothing ELSE Some(DecimalOfFloat(value[1]))

\* the bytes written at lines 63-64
StoredContent(event) == [size |-> ReadLength(event.size, 0), image |-> event.image]

\* filename and file_path of an upload at time now
FilePath(event, now) ==
    [subdir |-> IF DetermineFileTypeAndFormat(event.name)[1] = "IMAGE" THEN "images" ELSE "videos",
     filename |-> [timestamp |-> now, name |-> event.name]]

\* the row handle_file_upload commits for an accepted upload at time now
UploadedFile(event, now) ==
    LET kind == DetermineFileTypeAndFormat(event.name)
        metadata == ExtractFileMetadata(StoredContent(event), kind[1])
    IN  [filename |-> FilePath(event, now).filename,
         original_filename |-> event.name,
         file_path |-> FilePath(event, now),
         file_type |-> kind[1],
         file_format |-> kind[2],
         file_size |-> ReadLength(event.size, event.size),
         width |-> metadata.width,
         height |-> metadata.height,
         duration |-> DecimalOrNone(metadata.duration),
         fps |-> DecimalOrNone(metadata.fps),
         processing_status |-> "PENDING",
         error_message |-> Nothing,
         processed_at |-> Nothing]

\* a function with one more pair, or one pair fewer
With(f, key, value) == [k \in DOMAIN f \cup {key} |-> IF k = key THEN value ELSE f[k]]
Without(f, key) == [k \in DOMAIN f \ {key} |-> f[k]]

\* len([f for f in files if f.file_type == file_type])
CountType(rows, file_type) == Cardinality({id \in DOMAIN rows : rows[id].file_type = file_type})

\* len([f for f in files if f.processing_status == status])
CountStatusButProcessing(rows, status) ==
    IF status = "PROCESSING" THEN 0
    ELSE Cardinality({id \in DOMAIN rows : rows[id].processing_status = status})
CountStatus(rows, status) == Cardinality({id \in DOMAIN rows : rows[id].processing_status = status})

RECURSIVE SumOfSizes(_, _)
SumOfSizes(rows, ids) ==
    IF ids = {} THEN 0
    ELSE LET id == CHOOSE i \in ids : TRUE
         IN  rows[id].file_size + SumOfSizes(rows, ids \ {id})

\* get_file_statistics
FileStatistics(rows) ==
    [kind |-> "Statistics",
     total_files |-> Cardinality(DOMAIN rows),
     total_images |-> CountType(rows, "IMAGE"),
     total_videos |-> CountType(rows, "VIDEO"),
     pending_files |-> CountStatus(rows, "PENDING"),
     processing_files |-> CountStatus(rows, "PROCESSING"),
     completed_files |-> CountStatus(rows, "COMPLETED"),
     failed_files |-> CountStatus(rows, "FAILED"),
     total_size_mb |-> RoundHalfEven(SumOfSizes(rows, DOMAIN rows) * FloatScale, 1024 * 1024)]

(***************************************************************************)
(* analyze_file.  The call commits PROCESSING, then runs the try block     *)
(* and commits again; other threads see the table between the two.         *)
(***************************************************************************)
\* the stream of values numpy draws after seed(42) in the analyses
SeedStream == 42

\* num_sperm = np.random.randint(10, 50) of _mock_detect_sperm_in_image
NumSperm == Randint(10, 50, SeededState, SeedStream)

\* the arguments _analyze_video hands to the tracker
VideoOf(file) ==
    [kind |-> "Video",
     width |-> OrElse(file.width, 640),
     height |-> OrElse(file.height, 480),
     total_frames |-> (FloatOfDecimal(OrElse(file.duration, DecimalOfInt(5)))
                       * FloatOfDecimal(OrElse(file.fps, DecimalOfInt(30)))) \div (FloatScale * FloatScale),
     fps |-> OrElse(file.fps, DecimalOfInt(30)),
     stream |-> SeedStream]

\* lines 90-101: how many of the tracks from track i on get a CASAMetrics
\* row, the generator being in state s before the calculator is called on
\* track i; stored is 1 when that call returns a record
RECURSIVE MetricsStored(_, _, _, _, _)
MetricsStoredAfter(tracks, i, rate, ratio, s, stored) ==
    stored + MetricsStored(tracks, i + 1, rate, ratio, s + 2 * stored)

MetricsStored(tracks, i, rate, ratio, s) ==
    IF i > Len(tracks) THEN 0
    ELSE MetricsStoredAfter(tracks, i, rate, ratio, s,
             IF CalculateCasaMetrics(tracks[i].trajectory, rate, ratio, s) # None THEN 1 ELSE 0)

\* lines 84-101 and 104-108 on what the tracker returned: what the try block
\* stores, the generator being in state after when the tracker returns
AnalysisOfTracks(found, stored, after) ==
    [kind |-> "AnalysisResult", total_sperm_count |-> Len(found.tracks),
     detections |-> Len(found.detections), tracks |-> Len(found.tracks),
     casa_metrics |-> stored,
     seeded |-> TRUE, draws |-> after + 2 * stored]

AnalysisOfTracked(found, rate, ratio, after) ==
    IF found.kind = "ValueError"
    THEN [kind |-> "Error", message |-> "low >= high", seeded |-> TRUE, draws |-> after]
    ELSE AnalysisOfTracks(found, MetricsStored(found.tracks, 1, rate, ratio, after), after)

\* _analyze_video and lines 84-101 on the tracker's arguments v: what the try
\* block stores, or the exception
AnalysisOfVideo(v, ratio) ==
    AnalysisOfTracked(MockDetectAndTrack(v), v.fps, ratio, StateAfterTracker(v))

\* the videos a row can describe: width, height, duration and fps are the
\* values of _extract_file_metadata, or missing
StoredVideos ==
    {VideoOf([width |-> Some(640), height |-> Some(480),
              duration |-> Some(DecimalOfInt(10)), fps |-> Some(DecimalOfInt(30))]),
     VideoOf([width |-> Nothing, height |-> Nothing, duration |-> Nothing, fps |-> Nothing])}

\* AnalysisOfVideo, worked out once for each video and ratio
VideoAnalyses == [v \in StoredVideos, ratio \in Ratios |-> AnalysisOfVideo(v, ratio)]

\* the try block of analyze_file on a row: what it stores, or the exception
TryAnalysis(file, ratio, on_disk) ==
    IF file.file_path \notin DOMAIN on_disk
    THEN [kind |-> "Error", message |-> "File not found", seeded |-> FALSE, draws |-> 0]
    ELSE IF file.file_type = "IMAGE"
    THEN IF on_disk[file.file_path].image
         THEN [kind |-> "AnalysisResult", total_sperm_count |-> NumSperm,
               detections |-> NumSperm, tracks |-> 0, casa_metrics |-> 0,
               seeded |-> TRUE, draws |-> SeededState + 1 + 5 * NumSperm]
         ELSE [kind |-> "Error", message |-> "cannot identify image file", seeded |-> FALSE, draws |-> 0]
    ELSE VideoAnalyses[VideoOf(file), ratio]

\* the rows, paths and calls of the model
FileIds == 1..MaxFiles

Idle == [pc |-> "idle"]
Running == [pc |-> "running"]
Returns(value) == [pc |-> "returned", value |-> value]
Raised == [pc |-> "raised"]

InitStore ==
    /\ files = <<>>
    /\ analysis_results = {}
    /\ disk = <<>>
    /\ clock = 0
    /\ next_id = 1
    /\ calls = [id \in FileIds |-> Idle]
    /\ upload = NotCalled
    /\ stats = NotCalled
    /\ deleted = NotCalled
    /\ sperm_track = <<>>
    /\ casa_metrics = <<>>
    /\ tasks = <<>>

\* what a call of handle_file_upload came to
Uploaded(event, validation_result, value) ==
    [kind |-> "Upload", event |-> event, validation |-> validation_result, returned |-> value]

\* lines 62-64 if the file were written only once the row is committed
WriteFileIfCommitted(event, now, commit_raises) ==
    IF commit_raises THEN disk ELSE With(disk, FilePath(event, now), StoredContent(event))

\* lines 62-64: the bytes are written under the upload directory, before
\* the session is opened
WriteFile(event, now, commit_raises) == With(disk, FilePath(event, now), StoredContent(event))

\* handle_file_upload, start to return; commit_raises says that
\* session.commit() of line 94 raises, which lines 100-102 answer by
\* returning None
FileUpload(event, commit_raises) ==
    LET validation_result == ValidateFile(event)
        kind == DetermineFileTypeAndFormat(event.name)
    IN  /\ IF validation_result # None \/ kind[1] = "None"
           THEN /\ upload' = Uploaded(event, validation_result, Nothing)
                /\ UNCHANGED <<files, disk, next_id>>
           ELSE /\ next_id <= MaxFiles
                /\ disk' = WriteFile(event, clock, commit_raises)
                /\ IF commit_raises
                   THEN /\ upload' = Uploaded(event, validation_result, Nothing)
                        /\ UNCHANGED <<files, next_id>>
                   ELSE /\ files' = With(files, next_id, UploadedFile(event, clock))
                        /\ next_id' = next_id + 1
                        /\ upload' = Uploaded(event, validation_result, Some(next_id))
        /\ UNCHANGED <<analysis_results, clock, calls, stats, tables, deleted>>
        /\ UNCHANGED <<calculator, tracker>>

\* handle_file_upload called on its own, nothing being scheduled
Upload(event, commit_raises) ==
    /\ FileUpload(event, commit_raises)
    /\ UNCHANGED tasks

\* handle_file_upload, start to return, the database answering
HandleFileUpload(event) == Upload(event, FALSE)

\* a row committed through a session of the caller's own, as the tests do
TestFile ==
    [filename |-> [timestamp |-> 0, name |-> [stem |-> "test", suffix |-> ".jpg"]],
     original_filename |-> [stem |-> "test", suffix |-> ".jpg"],
     file_path |-> [subdir |-> "fake", filename |-> [timestamp |-> 0, name |-> [stem |-> "path", suffix |-> ".jpg"]]],
     file_type |-> "IMAGE",
     file_format |-> "JPG",
     file_size |-> 1024,
     width |-> Nothing,
     height |-> Nothing,
     duration |-> Nothing,
     fps |-> Nothing,
     processing_status |-> "PENDING",
     error_message |-> Nothing,
     processed_at |-> Nothing]

CreateTestFile ==
    /\ next_id <= MaxFiles
    /\ files' = With(files, next_id, TestFile)
    /\ next_id' = next_id + 1
    /\ UNCHANGED <<analysis_results, disk, clock, calls, upload, stats, tables, flow>>
    /\ UNCHANGED <<calculator, tracker>>

\* what a call of delete_uploaded_file(id) returned
Deleted(id, value) == [kind |-> "Delete", file_id |-> id, returned |-> value]

\* lines 189-194 alone: the row and its analyses go, the file stays
DeleteRowOnly(id) ==
    /\ UNCHANGED disk
    /\ files' = Without(files, id)
    /\ analysis_results' = {row \in analysis_results : row.file_id # id}
    /\ deleted' = Deleted(id, TRUE)

\* lines 183-194 when the commit goes through: the file is unlinked, the
\* row goes and the deletion cascades to its analyses
DeleteRow(id) ==
    /\ disk' = Without(disk, files[id].file_path)
    /\ files' = Without(files, id)
    /\ analysis_results' = {row \in analysis_results : row.file_id # id}
    /\ deleted' = Deleted(id, TRUE)

\* delete_uploaded_file(id), start to return; commit_raises says that
\* session.commit() of line 191 raises, which lines 196-199 answer by a
\* rollback of the session, the file being unlinked already
Delete(id, commit_raises) ==
    /\ IF id \notin DOMAIN files
       THEN /\ deleted' = Deleted(id, FALSE)
            /\ UNCHANGED <<files, analysis_results, disk>>
       ELSE IF commit_raises
       THEN /\ disk' = Without(disk, files[id].file_path)
            /\ deleted' = Deleted(id, FALSE)
            /\ UNCHANGED <<files, analysis_results>>
       ELSE DeleteRow(id)
    /\ UNCHANGED <<clock, next_id, calls, upload, stats, tables, tasks>>
    /\ UNCHANGED <<calculator, tracker>>

\* delete_uploaded_file on a row of the table, start to return
DeleteUploadedFile(id) ==
    /\ id \in DOMAIN files
    /\ Delete(id, FALSE)

\* get_file_statistics, start to return
GetFileStatistics ==
    /\ stats' = FileStatistics(files)
    /\ UNCHANGED <<files, analysis_results, disk, clock, next_id, calls, upload, tables, flow>>
    /\ UNCHANGED <<calculator, tracker>>

\* analyze_file(id) as call c, lines 46-55: the row is read and PROCESSING
\* is committed
AnalyzeFileStart(c, id) ==
    /\ calls[c] = Idle
    /\ IF id \notin DOMAIN files
       THEN /\ calls' = [calls EXCEPT ![c] = Returns("None")]
            /\ UNCHANGED files
       ELSE /\ files' = [files EXCEPT ![id].processing_status = "PROCESSING"]
            /\ calls' = [calls EXCEPT ![c] = Running]
    /\ UNCHANGED <<analysis_results, disk, clock, next_id, upload, stats, tables, flow>>
    /\ UNCHANGED <<calculator, tracker>>

\* analyze_file on an id the table gave out, one call for each id
AnalyzeStart(id) ==
    /\ id < next_id
    /\ AnalyzeFileStart(id, id)

\* the row as the call's last commit leaves it: lines 104-108, or 112-117
\* when the try block raised
CommittedUnlessFailed(file, outcome, now) ==
    IF outcome.kind = "Error" THEN file
    ELSE [file EXCEPT !.processing_status = "COMPLETED", !.processed_at = Some(now)]
Committed(file, outcome, now) ==
    IF outcome.kind = "Error"
    THEN [file EXCEPT !.processing_status = "FAILED", !.error_message = Some(outcome.message)]
    ELSE [file EXCEPT !.processing_status = "COMPLETED", !.processed_at = Some(now)]

\* the AnalysisResult row of call c on file id, with the numbers of rows
\* stored with it
ResultRow(c, id, outcome) ==
    [call |-> c,
     file_id |-> id,
     total_sperm_count |-> IF outcome.kind = "Error" THEN 0 ELSE outcome.total_sperm_count,
     detections |-> IF outcome.kind = "Error" THEN 0 ELSE outcome.detections,
     tracks |-> IF outcome.kind = "Error" THEN 0 ELSE outcome.tracks,
     casa_metrics |-> IF outcome.kind = "Error" THEN 0 ELSE outcome.casa_metrics]

\* the commit of lines 104-108 if it held the status alone, the rows of the
\* analysis being left to a later commit
AnalyzeCommitStatusFirst(c, id, outcome) ==
    /\ rng' = IF outcome.seeded THEN outcome.draws ELSE rng
    /\ files' = [files EXCEPT ![id] = Committed(files[id], outcome, clock)]
    /\ UNCHANGED analysis_results
    /\ calls' = [calls EXCEPT ![c] = Returns(IF outcome.kind = "Error" THEN "None" ELSE "AnalysisResult")]

\* the commit of line 117 if an AnalysisResult had been added to the session
\* before the try block raised: the except clause does not roll back
AnalyzeCommitKeepingFlushed(c, id, outcome) ==
    /\ rng' = IF outcome.seeded THEN outcome.draws ELSE rng
    /\ files' = [files EXCEPT ![id] = Committed(files[id], outcome, clock)]
    /\ analysis_results' = analysis_results \cup {ResultRow(c, id, outcome)}
    /\ calls' = [calls EXCEPT ![c] = Returns(IF outcome.kind = "Error" THEN "None" ELSE "AnalysisResult")]

\* analyze_file, lines 84-118: the rows stored and the commit that ends
\* call c, outcome being what the try block came to
AnalyzeCommit(c, id, outcome) ==
    /\ rng' = IF outcome.seeded THEN outcome.draws ELSE rng
    /\ files' = [files EXCEPT ![id] = Committed(files[id], outcome, clock)]
    /\ IF outcome.kind = "Error"
       THEN /\ calls' = [calls EXCEPT ![c] = Returns("None")]
            /\ UNCHANGED analysis_results
       ELSE /\ analysis_results' = analysis_results \cup {ResultRow(c, id, outcome)}
            /\ calls' = [calls EXCEPT ![c] = Returns("AnalysisResult")]

\* analyze_file(id) as call c, lines 57-118: the try block and the commit
\* that ends the call
AnalyzeFileFinish(c, id) ==
    /\ calls[c] = Running
    /\ IF id \notin DOMAIN files
       THEN \* the row was deleted meanwhile: the UPDATE of the commit matches no row
            /\ calls' = [calls EXCEPT ![c] = Raised]
            /\ UNCHANGED <<files, analysis_results, rng>>
       ELSE AnalyzeCommit(c, id, TryAnalysis(files[id], pixel_to_micron_ratio, disk))
    /\ UNCHANGED <<disk, clock, next_id, upload, stats, tables, flow>>
    /\ UNCHANGED <<trajectory, pixel_to_micron_ratio, fps, result, pc, local, ret>>
    /\ UNCHANGED tracker

\* the end of the one call on an id
AnalyzeFinish(id) == AnalyzeFileFinish(id, id)

(***************************************************************************)
(* Sequential calls                                                        *)
(***************************************************************************)
InitInputs(tracks) ==
    /\ trajectory \in tracks
    /\ pixel_to_micron_ratio \in Ratios
    /\ fps \in FrameRates
    /\ rng = SeededState
    /\ result = NotCalled
    /\ pc = [t \in Threads |-> "idle"]
    /\ local = [t \in Threads |-> NotCalled]
    /\ ret = [t \in Threads |-> NotCalled]
    /\ InitTracker
    /\ InitStore

Init == InitInputs(Trajectories(MaxLen) \cup FineTrajectories \cup LongTrajectories)

\* one call of _calculate_casa_metrics, start to return
Calculate ==
    /\ rng + Draws(trajectory) <= MaxDraws
    /\ result' = CalculateCasaMetrics(trajectory, fps, pixel_to_micron_ratio, rng)
    /\ rng' = rng + Draws(trajectory)
    /\ UNCHANGED <<trajectory, pixel_to_micron_ratio, fps, pc, local, ret>>
    /\ UNCHANGED <<tracker, store, tables, flow>>

\* np.random.seed(42), at the start of the mock detectors
Seed ==
    /\ rng' = SeededState
    /\ UNCHANGED <<trajectory, pixel_to_micron_ratio, fps, result, pc, local, ret>>
    /\ UNCHANGED <<tracker, store, tables, flow>>

Next == Calculate \/ Seed

Spec == Init /\ [][Next]_vars


(***************************************************************************)
(* Concurrent calls.  The dashboard hands analyze_file to the default      *)
(* executor, so several threads may be inside the calculator at once; the  *)
(* only state they share is numpy's generator, and each draw is one step.  *)
(***************************************************************************)
InitThreads == InitInputs(Trajectories(MaxThreadLen))

\* lines 261-312 on thread t: up to and including the draw of alh
ThreadStart(t) ==
    /\ pc[t] = "idle"
    /\ IF TooShort(trajectory) \/ Raises(trajectory)
       THEN /\ ret' = [ret EXCEPT ![t] = None]
            /\ pc' = [pc EXCEPT ![t] = "done"]
            /\ UNCHANGED <<rng, local>>
       ELSE /\ local' = [local EXCEPT ![t] = [kind |-> "Locals", alh |-> Alh(rng)]]
            /\ rng' = rng + 1
            /\ pc' = [pc EXCEPT ![t] = "drawn"]
            /\ UNCHANGED ret
    /\ UNCHANGED <<trajectory, pixel_to_micron_ratio, fps, result>>
    /\ UNCHANGED <<tracker, store, tables, flow>>

\* lines 313-336 on thread t: the draw of bcf and the record returned
ThreadFinish(t) ==
    /\ pc[t] = "drawn"
    /\ ret' = [ret EXCEPT ![t] =
                  Record(trajectory, fps, pixel_to_micron_ratio, local[t].alh, Bcf(rng))]
    /\ rng' = rng + 1
    /\ pc' = [pc EXCEPT ![t] = "done"]
    /\ UNCHANGED <<trajectory, pixel_to_micron_ratio, fps, result, local>>
    /\ UNCHANGED <<tracker, store, tables, flow>>

NextThreads == \E t \in Threads : ThreadStart(t) \/ ThreadFinish(t)

SpecThreads == InitThreads /\ [][NextThreads]_vars

(***************************************************************************)
(* Properties                                                              *)
(***************************************************************************)
(***************************************************************************)
(* The mock video tracker called on its own, as the tests call it          *)
(***************************************************************************)
FrameCounts == {0, 30, 31, 45, 100}

Videos ==
    [kind : {"Video"}, width : {60, 640}, height : {40, 480},
     total_frames : FrameCounts, fps : FrameRates, stream : Streams]

InitVideo ==
    /\ video \in Videos
    /\ tracked = NotCalled
    /\ trajectory = <<>>
    /\ pixel_to_micron_ratio = FloatScale \div 2
    /\ fps = DecimalOfInt(30)
    /\ rng = SeededState
    /\ result = NotCalled
    /\ pc = [t \in Threads |-> "idle"]
    /\ local = [t \in Threads |-> NotCalled]
    /\ ret = [t \in Threads |-> NotCalled]
    /\ InitStore

\* one call of _mock_detect_and_track_sperm_in_video, start to return
DetectAndTrack ==
    /\ tracked = NotCalled
    /\ tracked' = MockDetectAndTrack(video)
    /\ rng' = StateAfterTracker(video)
    /\ UNCHANGED <<trajectory, pixel_to_micron_ratio, fps, result, pc, local, ret>>
    /\ UNCHANGED <<video, store, tables, flow>>

NextTracker == DetectAndTrack

SpecTracker == InitVideo /\ [][NextTracker]_vars

(***************************************************************************)
(* The services at work: uploads, analyses in executor threads, deletions  *)
(* and statistics in any order.                                            *)
(***************************************************************************)
Names ==
    [stem : {"a"}, suffix : {".jpg", ".JPG", ".jpeg", ".png", ".mp4", ".avi", ".AVI", ".gif", ""}]

Sizes == {0, 1, MAX_IMAGE_SIZE, MAX_IMAGE_SIZE + 1, MAX_VIDEO_SIZE, MAX_VIDEO_SIZE + 1}

\* upload events: a name, a number of bytes, and whether they are an image;
\* every name with one byte, a .jpg and a .mp4 with every size
UploadEvents ==
    [name : Names, size : {1}, image : {TRUE}]
        \cup [name : {[stem |-> "a", suffix |-> ".jpg"], [stem |-> "a", suffix |-> ".mp4"]},
              size : Sizes, image : {TRUE}]
        \cup [name : {[stem |-> "a", suffix |-> ".jpg"]}, size : {1}, image : {FALSE}]

StoreEvents ==
    {event \in UploadEvents : event.size = 1 /\ event.name.suffix \in {".jpg", ".mp4"}}

InitFiles ==
    /\ trajectory = <<>>
    /\ pixel_to_micron_ratio = FloatScale \div 2
    /\ fps = DecimalOfInt(30)
    /\ rng = SeededState
    /\ result = NotCalled
    /\ pc = [t \in Threads |-> "idle"]
    /\ local = [t \in Threads |-> NotCalled]
    /\ ret = [t \in Threads |-> NotCalled]
    /\ InitTracker
    /\ InitStore

NextFiles ==
    \/ \E event \in StoreEvents : HandleFileUpload(event)
    \/ CreateTestFile
    \/ \E id \in FileIds : DeleteUploadedFile(id)
    \/ GetFileStatistics
    \/ \E id \in FileIds : AnalyzeStart(id)
    \/ \E id \in FileIds : AnalyzeFinish(id)

SpecFiles == InitFiles /\ [][NextFiles]_vars

\* uploads alone, of every kind of event
NextUploads == \E event \in UploadEvents : HandleFileUpload(event)

SpecUploads == InitFiles /\ [][NextUploads]_vars

Returned == result.kind = "CASAMetrics"

\* at least 3 samples with timestamps that never go back
ValidTrajectory(track) ==
    /\ Len(track) >= 3
    /\ \A i \in 2..Len(track) : track[i].timestamp >= track[i - 1].timestamp

Hundred == DecimalOfInt(100)

\* C1: a call on a trajectory of fewer than 3 samples returns None, never a record.
C1_TooShortYieldsNone ==
    (result # NotCalled /\ Len(trajectory) < 3) => result = None

C1_Witness == result # NotCalled /\ Len(trajectory) = 2

\* C2: a call returns None only for a trajectory of fewer than 3 samples; with 3 or
\* more samples it returns a record.
C2_NoneOnlyWhenTooShort ==
    result # NotCalled => (result = None <=> Len(trajectory) < 3)

\* C3: for a valid trajectory and a positive ratio the returned LIN, STR and WOB
\* lie between 0 and 100.
C3_PercentagesInRange ==
    (ValidTrajectory(trajectory) /\ pixel_to_micron_ratio > 0 /\ Returned) =>
        /\ 0 <= result.lin /\ result.lin <= Hundred
        /\ 0 <= result.str_value /\ result.str_value <= Hundred
        /\ 0 <= result.wob /\ result.wob <= Hundred

\* a record whose WOB was cut to 100 and whose LIN lies strictly inside the range
C3_Witness ==
    /\ ValidTrajectory(trajectory) /\ pixel_to_micron_ratio > 0 /\ Returned
    /\ Percentage(result.vap, result.vcl) > Hundred
    /\ result.wob = Hundred
    /\ 0 < result.lin /\ result.lin < Hundred

\* C4: for a valid trajectory and a positive ratio the returned VCL, VSL, VAP,
\* total_distance and net_distance are not negative.
C4_NonNegative ==
    (ValidTrajectory(trajectory) /\ pixel_to_micron_ratio > 0 /\ Returned) =>
        /\ result.vcl >= 0 /\ result.vsl >= 0 /\ result.vap >= 0
        /\ result.total_distance >= 0 /\ result.net_distance >= 0

C4_Witness ==
    /\ ValidTrajectory(trajectory) /\ pixel_to_micron_ratio > 0 /\ Returned
    /\ result.vcl > 0 /\ result.vsl > 0 /\ result.vap > 0
    /\ result.total_distance > result.net_distance /\ result.net_distance > 0

\* C5: for a valid trajectory the returned total_distance is at least the returned
\* net_distance.
C5_TotalAtLeastNet ==
    (ValidTrajectory(trajectory) /\ Returned) =>
        result.total_distance >= result.net_distance

\* C6: with total duration t[last] - t[first]: when it is positive, VCL is
\* total_distance over it and VSL net_distance over it; when it is not, a record is
\* still returned, with VCL = VSL = 0.
C6_VelocitiesByDuration ==
    (result # NotCalled /\ Len(trajectory) >= 3) =>
        LET total_time == TotalTime(Points(trajectory))
        IN  IF total_time > 0
            THEN Returned =>
                    /\ result.vcl = DecimalDiv(result.total_distance, DecimalOfFloat(total_time))
                    /\ result.vsl = DecimalDiv(result.net_distance, DecimalOfFloat(total_time))
            ELSE Returned /\ result.vcl = 0 /\ result.vsl = 0

\* C7: VAP is the mean of the first floor(count/2) velocities, of at least one of
\* them when there is any (a single velocity v gives VAP = v), and 0 when there is
\* none.
C7_VapIsFirstHalfMean ==
    Returned =>
        LET velocities == Velocities(Points(trajectory), Len(trajectory), pixel_to_micron_ratio)
            half == Len(velocities) \div 2
            used == IF half > 1 THEN half ELSE 1
        IN  result.vap = IF Len(velocities) = 0 THEN 0
                         ELSE DecimalDiv(SumDecimals(velocities, used), DecimalOfInt(used))

\* C8: two calls with the same trajectory, ratio and frame rate return equal
\* records: a call returns what the call before it returned (the inputs never
\* change in a behaviour).
C8_Deterministic ==
    [][(result # NotCalled /\ result' # NotCalled) => result' = result]_vars

\* C9: every call run concurrently on the trajectory returns what a single call
\* running alone from the seeded generator returns.
C9_ThreadsMatchIsolatedRun ==
    \A t \in Threads :
        pc[t] = "done" =>
            ret[t] = CalculateCasaMetrics(trajectory, fps, pixel_to_micron_ratio, SeededState)

\* at least 3 samples, every step the same displacement in the same positive time
StraightUniform(track) ==
    /\ Len(track) >= 3
    /\ track[2].timestamp > track[1].timestamp
    /\ \A i \in 3..Len(track) :
        /\ track[i].x - track[i - 1].x = track[2].x - track[1].x
        /\ track[i].y - track[i - 1].y = track[2].y - track[1].y
        /\ track[i].timestamp - track[i - 1].timestamp = track[2].timestamp - track[1].timestamp

ClosedLoop(track) ==
    /\ Len(track) >= 3
    /\ track[1].x = track[Len(track)].x
    /\ track[1].y = track[Len(track)].y

\* some consecutive pair of samples at different positions
HasMovingSegment(track) ==
    \E i \in 2..Len(track) : track[i].x # track[i - 1].x \/ track[i].y # track[i - 1].y

\* C11: for a closed loop of three or more samples the record has
\* net_distance = 0, VSL = 0 and LIN = 0, and VCL > 0 when the path has a
\* positive total duration and a segment of non-zero length
C11_ClosedLoop ==
    (Returned /\ ClosedLoop(trajectory)) =>
        /\ result.net_distance = 0
        /\ result.vsl = 0
        /\ result.lin = 0
        /\ (TotalTime(Points(trajectory)) > 0 /\ HasMovingSegment(trajectory)) => result.vcl > 0

\* value / by * 100 cut at 100 when by > 0, and 0 otherwise
GuardedRatio(value, by) ==
    IF by > 0
    THEN LET percent == DecimalDiv(value, by) * 100
         IN  IF percent > Hundred THEN Hundred ELSE percent
    ELSE 0

\* C12: LIN = min(100, VSL / VCL * 100) when VCL > 0 and 0 when VCL = 0,
\* STR = min(100, VSL / VAP * 100) when VAP > 0 and 0 otherwise,
\* WOB = min(100, VAP / VCL * 100) when VCL > 0 and 0 otherwise; a zero
\* denominator never enters a division, so the call still returns a record
C12_GuardedRatios ==
    /\ Returned =>
        /\ result.vcl >= 0 /\ result.vap >= 0
        /\ result.lin = GuardedRatio(result.vsl, result.vcl)
        /\ result.str_value = GuardedRatio(result.vsl, result.vap)
        /\ result.wob = GuardedRatio(result.vap, result.vcl)
    /\ (result # NotCalled /\ ~TooShort(trajectory) /\ ~Raises(trajectory)) => Returned

\* a record whose VAP is 0 while its VSL is not: STR is 0, not a quotient
C12_Witness ==
    /\ Returned
    /\ result.vap = 0 /\ result.vsl > 0 /\ result.str_value = 0
    /\ result.vcl > 0 /\ result.lin > 0 /\ result.wob = 0

\* the converted length of segment i (between samples i - 1 and i), as a Decimal
SegmentLength(track, ratio, i) ==
    LET dx == Abs(track[i].x - track[i - 1].x)
        dy == Abs(track[i].y - track[i - 1].y)
    IN  DecimalOfFloat(FloatMul(FloatSqrt(dx * dx + dy * dy), ratio))

RECURSIVE SumOfSegments(_, _, _)
SumOfSegments(track, ratio, i) ==
    IF i < 2 THEN 0 ELSE SumOfSegments(track, ratio, i - 1) + SegmentLength(track, ratio, i)

\* the segments that take time, in order
TimedSegments(track) ==
    SelectSeq([k \in 1..(Len(track) - 1) |-> k + 1],
              LAMBDA i : track[i].timestamp - track[i - 1].timestamp > 0)

\* C13: every consecutive segment adds its converted length to total_distance
\* whatever its time difference; exactly the segments with time_diff > 0 add
\* a velocity entry, their distance over their time difference, in order
C13_SegmentsAndVelocities ==
    Returned =>
        LET velocities == Velocities(Points(trajectory), Len(trajectory), pixel_to_micron_ratio)
            timed == TimedSegments(trajectory)
        IN  /\ result.total_distance = SumOfSegments(trajectory, pixel_to_micron_ratio, Len(trajectory))
            /\ Len(velocities) = Len(timed)
            /\ \A k \in 1..Len(timed) :
                 LET i == timed[k]
                     dx == Abs(trajectory[i].x - trajectory[i - 1].x)
                     dy == Abs(trajectory[i].y - trajectory[i - 1].y)
                 IN  velocities[k] =
                         FloatDiv(FloatMul(FloatSqrt(dx * dx + dy * dy), pixel_to_micron_ratio),
                                  trajectory[i].timestamp - trajectory[i - 1].timestamp)

\* a record of a track with a moving segment that takes no time, one that
\* goes back in time and one that takes time
C13_Witness ==
    /\ Returned
    /\ \E i, j, k \in 2..Len(trajectory) :
          /\ trajectory[i].timestamp = trajectory[i - 1].timestamp
          /\ trajectory[i].x # trajectory[i - 1].x
          /\ trajectory[j].timestamp < trajectory[j - 1].timestamp
          /\ trajectory[j].y # trajectory[j - 1].y
          /\ trajectory[k].timestamp > trajectory[k - 1].timestamp
    /\ result.total_distance > 0
    /\ result.vap > 0

\* what the ingestor accepts: a non-empty trajectory whose timestamps never decrease
Validated(track) ==
    /\ Len(track) > 0
    /\ \A i \in 2..Len(track) : track[i].timestamp >= track[i - 1].timestamp

\* C14: an empty trajectory or one whose timestamps decrease is rejected as
\* InvalidTrajectory and never reaches the calculator: whenever the
\* calculator has produced an outcome, its trajectory had passed validation
C14_OnlyValidatedReachCalculator ==
    result # NotCalled => Validated(trajectory)

C15_WitnessEleven ==
    /\ Returned
    /\ Len(trajectory) = 11
    /\ result.tracking_quality = (9 * DecimalScale) \div 10

\* C16: a returned record echoes the calibration of its run: its
\* pixel_to_micron_ratio is the ratio that multiplied the segment and net
\* distances, and its frame_rate is the frame rate passed to the calculator
C16_EchoesCalibration ==
    Returned =>
        /\ result.pixel_to_micron_ratio = DecimalOfFloat(pixel_to_micron_ratio)
        /\ result.frame_rate = fps
        /\ result.total_distance = SumOfSegments(trajectory, pixel_to_micron_ratio, Len(trajectory))
        /\ result.net_distance =
             LET dx == Abs(trajectory[Len(trajectory)].x - trajectory[1].x)
                 dy == Abs(trajectory[Len(trajectory)].y - trajectory[1].y)
             IN  DecimalOfFloat(FloatMul(FloatSqrt(dx * dx + dy * dy), pixel_to_micron_ratio))

\* a record of a run with a ratio and a frame rate other than the defaults
C16_Witness ==
    /\ Returned
    /\ pixel_to_micron_ratio = FloatScale /\ result.pixel_to_micron_ratio = DecimalScale
    /\ fps = DecimalOfInt(25) /\ result.frame_rate = DecimalOfInt(25)
    /\ result.net_distance > 0

\* C19: for every video size and frame count the mock video tracker returns
\* at least one detection and between 5 and 20 tracks, each with
\* track_id >= 0, start_frame >= 0, end_frame >= start_frame and a
\* non-empty trajectory
C19_TrackerOutput ==
    tracked # NotCalled =>
        /\ tracked.kind = "Tracked"
        /\ Len(tracked.detections) >= 1
        /\ Len(tracked.tracks) >= 5 /\ Len(tracked.tracks) <= 20
        /\ \A i \in 1..Len(tracked.tracks) :
             LET track == tracked.tracks[i]
             IN  /\ track.track_id >= 0
                 /\ track.start_frame >= 0
                 /\ track.end_frame >= track.start_frame
                 /\ Len(track.trajectory) > 0

\* C17: get_file_statistics reports the table as it is: on an empty table
\* every count and total_size_mb are 0, and after any uploads, analyses and
\* deletions total_files = total_images + total_videos
\* = pending + processing + completed + failed, each count being the number
\* of rows of that type or status
C17_StatisticsAddUp ==
    LET now == FileStatistics(files)
    IN  /\ now.total_files = Cardinality(DOMAIN files)
        /\ now.total_files = now.total_images + now.total_videos
        /\ now.total_files = now.pending_files + now.processing_files
                                 + now.completed_files + now.failed_files
        /\ now.total_images = Cardinality({id \in DOMAIN files : files[id].file_type = "IMAGE"})
        /\ now.completed_files = Cardinality({id \in DOMAIN files : files[id].processing_status = "COMPLETED"})
        /\ now.failed_files = Cardinality({id \in DOMAIN files : files[id].processing_status = "FAILED"})
        /\ now.processing_files = Cardinality({id \in DOMAIN files : files[id].processing_status = "PROCESSING"})
        /\ (DOMAIN files = {}) =>
             /\ now.total_files = 0 /\ now.total_images = 0 /\ now.total_videos = 0
             /\ now.pending_files = 0 /\ now.processing_files = 0
             /\ now.completed_files = 0 /\ now.failed_files = 0
             /\ now.total_size_mb = 0
        /\ stats # NotCalled =>
             /\ stats.total_files = stats.total_images + stats.total_videos
             /\ stats.total_files = stats.pending_files + stats.processing_files
                                        + stats.completed_files + stats.failed_files

\* statistics taken while one row is left, analysed, and another was deleted
C17_Witness ==
    /\ stats # NotCalled
    /\ stats = FileStatistics(files)
    /\ stats.total_files = 1 /\ stats.total_videos = 1 /\ stats.completed_files = 1
    /\ \E id \in FileIds : id < next_id /\ id \notin DOMAIN files

\* statistics taken of an image being analysed and a video that failed
C17_WitnessTwo ==
    /\ stats # NotCalled
    /\ stats = FileStatistics(files)
    /\ stats.total_files = 2 /\ stats.total_images = 1 /\ stats.total_videos = 1
    /\ stats.processing_files = 1 /\ stats.failed_files = 1

\* statistics taken of the empty table after its rows were deleted
C17_WitnessEmpty ==
    /\ stats # NotCalled
    /\ stats.total_files = 0 /\ stats.total_size_mb = 0
    /\ next_id > 1

\* the upload's extension, whatever its case, is one the service supports
SupportedImage(event) == event.name.suffix \in {".jpg", ".JPG", ".jpeg", ".png"}
SupportedVideo(event) == event.name.suffix \in {".mp4", ".avi", ".AVI"}

\* what the claim says of an upload that passes validation
Acceptable(event) ==
    \/ SupportedImage(event) /\ event.size > 0 /\ event.size <= 50 * 1024 * 1024
    \/ SupportedVideo(event) /\ event.size > 0 /\ event.size <= 500 * 1024 * 1024

\* C18: validation accepts an upload iff its extension, case-insensitively,
\* is .jpg, .jpeg, .png, .mp4 or .avi and its size s satisfies
\* 0 < s <= 50 MB for images and 0 < s <= 500 MB for videos; every other
\* upload gets an error message and handle_file_upload returns None
C18_UploadValidation ==
    upload # NotCalled =>
        /\ (upload.validation = None) <=> Acceptable(upload.event)
        /\ ~Acceptable(upload.event) =>
             /\ upload.validation.kind = "Error"
             /\ upload.validation.message \in {"Unsupported file format", "File too large", "Empty file"}
             /\ upload.returned = Nothing
        /\ upload.returned # Nothing =>
             /\ Acceptable(upload.event)
             /\ upload.returned[1] \in DOMAIN files

\* an image of exactly 50 MB was accepted
C18_Witness ==
    /\ upload # NotCalled
    /\ upload.event.name.suffix = ".jpg"
    /\ upload.event.size = 50 * 1024 * 1024
    /\ upload.validation = None
    /\ upload.returned # Nothing

\* a video with an upper-case extension was accepted
C18_WitnessUpperCase ==
    /\ upload # NotCalled
    /\ upload.event.name.suffix = ".AVI"
    /\ upload.validation = None
    /\ upload.returned # Nothing
    /\ files[upload.returned[1]].file_format = "AVI"

\* a video one byte over 500 MB was turned down
C18_WitnessTooLarge ==
    /\ upload # NotCalled
    /\ upload.event.name.suffix = ".mp4"
    /\ upload.event.size = 500 * 1024 * 1024 + 1
    /\ upload.validation # None
    /\ upload.validation.message = "File too large"
    /\ upload.returned = Nothing

\* C20: a call of analyze_file on an existing row first commits PROCESSING
\* and ends in one terminal status: when it returns an AnalysisResult the
\* row is COMPLETED with processed_at set, when it returns None the row is
\* FAILED with error_message set; no call returns leaving PENDING or
\* PROCESSING behind
C20_AnalysisEndsTerminal ==
    [][\A id \in FileIds :
          /\ (calls[id] = Idle /\ id \in DOMAIN files) =>
                (calls'[id] # Idle => /\ calls'[id] = Running
                                      /\ id \in DOMAIN files'
                                      /\ files'[id].processing_status = "PROCESSING")
          /\ (calls[id] = Running /\ calls'[id] = Returns("AnalysisResult")) =>
                /\ id \in DOMAIN files'
                /\ files'[id].processing_status = "COMPLETED"
                /\ files'[id].processed_at # Nothing
          /\ (calls[id] = Running /\ calls'[id] = Returns("None")) =>
                /\ id \in DOMAIN files'
                /\ files'[id].processing_status = "FAILED"
                /\ files'[id].error_message # Nothing
          /\ (calls[id].pc # "returned" /\ calls'[id].pc = "returned" /\ id \in DOMAIN files) =>
                /\ calls[id] = Running
                /\ files'[id].processing_status \in {"COMPLETED", "FAILED"}
      ]_vars

\* one call returned a result and left its row COMPLETED, another returned
\* None and left its row FAILED
C20_Witness ==
    \E done, failed \in DOMAIN files :
        /\ calls[done] = Returns("AnalysisResult")
        /\ files[done].processing_status = "COMPLETED"
        /\ files[done].processed_at # Nothing
        /\ calls[failed] = Returns("None")
        /\ files[failed].processing_status = "FAILED"
        /\ files[failed].error_message = Some("cannot identify image file")

(***************************************************************************)
(* Uploads while the clock advances and the database may fail a commit     *)
(***************************************************************************)
\* a second passes
Tick ==
    /\ clock < MaxClock
    /\ clock' = clock + 1
    /\ UNCHANGED <<files, analysis_results, disk, next_id, calls, upload, stats, tables, flow>>
    /\ UNCHANGED <<calculator, tracker>>

\* the events that are stored, and one rejected for each reason
FaultyUploadEvents ==
    StoreEvents
        \cup {event \in UploadEvents :
                 /\ event.image
                 /\ \/ event.name.suffix = ".gif"
                    \/ event.name.suffix = ".jpg" /\ event.size \in {0, MAX_IMAGE_SIZE + 1}}

NextFaultyUploads ==
    \/ \E event \in FaultyUploadEvents, commit_raises \in BOOLEAN : Upload(event, commit_raises)
    \/ Tick

SpecFaultyUploads == InitFiles /\ [][NextFaultyUploads]_vars

(***************************************************************************)
(* Deletions of uploaded rows, of rows that do not exist, and deletions    *)
(* whose commit fails                                                      *)
(***************************************************************************)
NextDeletes ==
    \/ \E event \in StoreEvents : HandleFileUpload(event)
    \/ \E id \in FileIds, commit_raises \in BOOLEAN : Delete(id, commit_raises)

SpecDeletes == InitFiles /\ [][NextDeletes]_vars

(***************************************************************************)
(* The dashboard's upload flow: _handle_upload stores the upload and, when *)
(* a row came back, schedules _analyze_file_async on its id; the executor  *)
(* runs the scheduled analyses in any order.                               *)
(***************************************************************************)
\* lines 108-116 if the task were created twice
ScheduledTwice(scheduled, returned) ==
    IF returned = Nothing THEN scheduled ELSE scheduled \o <<returned[1], returned[1]>>

\* lines 108-116: return when the upload failed, asyncio.create_task on the
\* id of the row otherwise
Scheduled(scheduled, returned) ==
    IF returned = Nothing THEN scheduled ELSE Append(scheduled, returned[1])

\* _handle_upload, start to return
HandleUpload(event, commit_raises) ==
    /\ FileUpload(event, commit_raises)
    /\ tasks' = Scheduled(tasks, upload'.returned)

\* _analyze_file_async of task k: analyze_file starts in the executor
AnalyzeFileAsyncStart(k) ==
    /\ k <= Len(tasks)
    /\ AnalyzeFileStart(k, tasks[k])

\* _analyze_file_async of task k: analyze_file returns
AnalyzeFileAsyncFinish(k) ==
    /\ k <= Len(tasks)
    /\ AnalyzeFileFinish(k, tasks[k])

NextDashboard ==
    \/ \E event \in FaultyUploadEvents, commit_raises \in BOOLEAN : HandleUpload(event, commit_raises)
    \/ \E k \in FileIds : AnalyzeFileAsyncStart(k)
    \/ \E k \in FileIds : AnalyzeFileAsyncFinish(k)

SpecDashboard == InitFiles /\ [][NextDashboard]_vars

(***************************************************************************)
(* Lines 89-101 of analyze_file on the tracks of one analysis: each track  *)
(* is stored and flushed, which gives it its id, and handed to the         *)
(* calculator.  The tracks are drawn from the walks, short ones included.  *)
(***************************************************************************)
\* the trajectories of the tracks: every walk of at most two samples, and
\* walks of three and four samples by one step repeated
TrackTrajectories ==
    Trajectories(2) \cup {Walk([i \in 1..(n - 1) |-> s], n - 1) : s \in Steps, n \in 3..4}

\* result["tracks"]: the tracks numbered 0, 1, ... as the tracker numbers them
TrackLists ==
    UNION {[1..n -> TrackTrajectories] : n \in 1..MaxTracks}

TracksOf(list) ==
    [kind |-> "Tracked",
     detections |-> <<>>,
     tracks |-> [i \in 1..Len(list) |->
                    [track_id |-> i - 1, total_frames |-> Len(list[i]), trajectory |-> list[i]]]]

\* lines 99-100 if the placeholder of the calculator were kept
StoredMetricsPlaceholder(metrics, id) == metrics

\* lines 99-100: casa_metrics.sperm_track_id = track.id
StoredMetrics(metrics, id) == [metrics EXCEPT !.sperm_track_id = id]

\* lines 92-95: the row of a track after the flush, id being its primary key
TrackRow(track, id) ==
    [id |-> id, track_id |-> track.track_id, trajectory |-> track.trajectory]

\* lines 98-101 on a flushed track, metrics being what the calculator returned
StoreMetrics(id, metrics) ==
    casa_metrics' = IF metrics # None
                    THEN Append(casa_metrics, StoredMetrics(metrics, id))
                    ELSE casa_metrics

InitTracks ==
    /\ tracked \in {TracksOf(list) : list \in TrackLists}
    /\ video = NoVideo
    /\ trajectory = <<>>
    /\ pixel_to_micron_ratio = FloatScale \div 2
    /\ fps = DecimalOfInt(30)
    /\ rng = SeededState
    /\ result = NotCalled
    /\ pc = [t \in Threads |-> "idle"]
    /\ local = [t \in Threads |-> NotCalled]
    /\ ret = [t \in Threads |-> NotCalled]
    /\ InitStore

\* one turn of the loop of line 91, on the track after those stored
StoreTrack ==
    /\ Len(sperm_track) < Len(tracked.tracks)
    /\ sperm_track' = Append(sperm_track,
                             TrackRow(tracked.tracks[Len(sperm_track) + 1], Len(sperm_track) + 1))
    /\ StoreMetrics(Len(sperm_track) + 1,
                    CalculateCasaMetrics(tracked.tracks[Len(sperm_track) + 1].trajectory,
                                         fps, pixel_to_micron_ratio, rng))
    /\ rng' = rng + Draws(tracked.tracks[Len(sperm_track) + 1].trajectory)
    /\ UNCHANGED <<trajectory, pixel_to_micron_ratio, fps, result, pc, local, ret>>
    /\ UNCHANGED <<tracker, store, flow>>

NextTracks == StoreTrack

SpecTracks == InitTracks /\ [][NextTracks]_vars

(***************************************************************************)
(* What other sessions see of an analysis                                  *)
(***************************************************************************)
\* the rows another session finds for a file: select(AnalysisResult).where(
\* AnalysisResult.file_id == file.id)
ResultsOf(id) == {row \in analysis_results : row.file_id = id}

\* a row holding what one run found: the detections of an image, or the
\* detections and the tracks of a video
RowOfRun(file, row) ==
    /\ row.detections > 0
    /\ IF file.file_type = "IMAGE"
       THEN row.tracks = 0 /\ row.total_sperm_count = row.detections
       ELSE row.tracks > 0 /\ row.total_sperm_count = row.tracks
    /\ row.casa_metrics <= row.tracks

\* C21: in every committed state, the only states another session can read,
\* a file whose status is COMPLETED has an AnalysisResult row with the
\* detections, tracks and CASA metrics of the run: the status never becomes
\* visible before the rows
C21_CompletedHasResults ==
    \A id \in DOMAIN files :
        files[id].processing_status = "COMPLETED" =>
            \E row \in ResultsOf(id) : RowOfRun(files[id], row)

\* a video and an image both COMPLETED, each with its rows
C21_Witness ==
    \E v, i \in DOMAIN files :
        /\ files[v].file_type = "VIDEO" /\ files[v].processing_status = "COMPLETED"
        /\ files[i].file_type = "IMAGE" /\ files[i].processing_status = "COMPLETED"
        /\ \E row \in ResultsOf(v) : row.tracks > 0
        /\ \E row \in ResultsOf(i) : row.tracks = 0 /\ row.detections > 0

MetricsOf(row) == {k \in DOMAIN casa_metrics : casa_metrics[k].sperm_track_id = row.id}

\* the calculator returns a record on a trajectory, whatever the generator draws
ReturnsRecord(track) ==
    CalculateCasaMetrics(track, fps, pixel_to_micron_ratio, SeededState) # None

\* C23: of the tracks an analysis stored, a track has a CASAMetrics row iff
\* its trajectory has at least 3 points and the calculator returned a record;
\* no track has two rows, and the sperm_track_id of every row is the id the
\* database gave the track, never the placeholder 0 of the calculator
C23_MetricsRowPerTrack ==
    /\ \A i \in DOMAIN sperm_track :
          /\ Cardinality(MetricsOf(sperm_track[i])) <= 1
          /\ MetricsOf(sperm_track[i]) # {} <=>
                (Len(sperm_track[i].trajectory) >= 3 /\ ReturnsRecord(sperm_track[i].trajectory))
          /\ sperm_track[i].id # 0
          /\ sperm_track[i].trajectory = tracked.tracks[i].trajectory
    /\ \A k \in DOMAIN casa_metrics :
          /\ casa_metrics[k].sperm_track_id # 0
          /\ \E i \in DOMAIN sperm_track : casa_metrics[k].sperm_track_id = sperm_track[i].id

\* every track of the analysis is stored: the first is too short or made
\* the calculator raise and has no row, the second has its row
C23_Witness ==
    /\ Len(sperm_track) = 2 /\ Len(tracked.tracks) = 2
    /\ MetricsOf(sperm_track[1]) = {}
    /\ Len(sperm_track[2].trajectory) >= 3
    /\ Len(casa_metrics) = 1
    /\ casa_metrics[1].sperm_track_id = sperm_track[2].id

\* a track of three samples or more on which the calculator raised: no row
C23_WitnessRaised ==
    \E i \in DOMAIN sperm_track :
        /\ Len(sperm_track[i].trajectory) >= 3
        /\ ~ReturnsRecord(sperm_track[i].trajectory)
        /\ MetricsOf(sperm_track[i]) = {}

(***************************************************************************)
(* Uploads and deletions as a whole                                        *)
(***************************************************************************)
\* a step of handle_file_upload returned the row id: the row is new, is
\* PENDING, and its file_path holds the uploaded bytes
ReturnedRecord(id) ==
    /\ id \notin DOMAIN files
    /\ id \in DOMAIN files'
    /\ files'[id].processing_status = "PENDING"
    /\ files'[id].file_path \in DOMAIN disk'
    /\ disk'[files'[id].file_path] = StoredContent(upload'.event)

\* C24: a call of handle_file_upload either returns a new UploadedFile row,
\* PENDING, whose file_path names a file on disk holding the uploaded
\* bytes, or returns None having created no row and left no file on disk:
\* a rejected or failed upload leaves the table and the upload directory
\* as they were
C24_UploadAllOrNothing ==
    [][clock' = clock =>
          IF upload'.returned # Nothing
          THEN ReturnedRecord(upload'.returned[1])
          ELSE files' = files /\ disk' = disk
      ]_vars

\* C25: the file_size stored in the row of a successful upload is the number
\* of bytes of the uploaded content, the number validation checked and the
\* number written to disk, and so is greater than 0
C25_FileSizeIsByteCount ==
    (upload # NotCalled /\ upload.returned # Nothing /\ upload.returned[1] \in DOMAIN files) =>
        /\ files[upload.returned[1]].file_size = upload.event.size
        /\ files[upload.returned[1]].file_size = ReadLength(upload.event.size, 0)
        /\ files[upload.returned[1]].file_size = disk[files[upload.returned[1]].file_path].size
        /\ files[upload.returned[1]].file_size > 0

\* C26: the stored filename of each upload is unique: any two rows, also of
\* uploads with the same original name arriving within the same second,
\* have different file_path values, so that no upload overwrites the
\* stored file of another row
C26_UniqueStoredFilename ==
    \A one, other \in DOMAIN files :
        one # other => files[one].file_path # files[other].file_path

\* C27: delete_uploaded_file is all or nothing.  It returns False and
\* changes nothing when no row has the id; when it returns True the row and
\* its physical file are both gone; when it returns False after an error
\* the row and the physical file are both as before the call
C27_DeleteAllOrNothing ==
    [][next_id' = next_id =>
          /\ deleted'.kind = "Delete"
          /\ IF deleted'.returned
             THEN /\ deleted'.file_id \in DOMAIN files
                  /\ deleted'.file_id \notin DOMAIN files'
                  /\ files[deleted'.file_id].file_path \notin DOMAIN disk'
             ELSE /\ files' = files
                  /\ analysis_results' = analysis_results
                  /\ disk' = disk
      ]_vars

(***************************************************************************)
(* The analyses the dashboard schedules                                    *)
(***************************************************************************)
\* the tasks scheduled for a file, and the calls of analyze_file begun on it
TasksOf(id) == {k \in DOMAIN tasks : tasks[k] = id}
CallsOf(id) == {k \in DOMAIN tasks : tasks[k] = id /\ k \in DOMAIN calls /\ calls[k] # Idle}

\* every file has one task at most, every uploaded file has its task, and
\* no file has more than one call or more than one AnalysisResult
AnalysedOnce ==
    /\ \A id \in DOMAIN files : Cardinality(TasksOf(id)) = 1
    /\ \A k \in DOMAIN tasks : tasks[k] \in DOMAIN files
    /\ \A id \in DOMAIN files :
          /\ Cardinality(CallsOf(id)) <= 1
          /\ Cardinality(ResultsOf(id)) <= 1
    /\ \A c \in DOMAIN calls : calls[c] # Idle => c \in DOMAIN tasks

\* a step of _handle_upload, the only steps that leave the calls alone:
\* one task for the row returned, none when None was returned
SchedulesOne ==
    calls' = calls =>
        IF upload'.returned = Nothing
        THEN tasks' = tasks
        ELSE /\ tasks' = Append(tasks, upload'.returned[1])
             /\ upload'.returned[1] \in DOMAIN files' \ DOMAIN files

\* C28: in the dashboard's upload flow every successful upload schedules
\* exactly one background analysis, of the id of the file just uploaded,
\* and an upload that fails schedules none; so each uploaded file is
\* analysed at most once and gets at most one AnalysisResult
C28_OneAnalysisPerUpload == []AnalysedOnce /\ [][SchedulesOne]_vars

\* two uploads went through and one failed; both files were analysed, each
\* once, and one of them has its AnalysisResult
C28_Witness ==
    /\ tasks = <<1, 2>>
    /\ upload.returned = Nothing
    /\ calls[1] = Returns("AnalysisResult") /\ calls[2] # Idle
    /\ Cardinality(ResultsOf(1)) = 1

=============================================================================
